---- MODULE Spec2Model ----
(***************************************************************************)
(* EnData: the conditioning module (generator/conditioning.py) and the     *)
(* DDPM diffusion core (generator/diffcharge/diffusion.py).                *)
(*                                                                         *)
(* The specifications share the variables:                                 *)
(*   Spec      a DDPM object: construction, train_model (one action per    *)
(*             step of the epoch/batch loop), save and load;               *)
(*   SpecCM    a ConditioningModule object driven through its public       *)
(*             methods;                                                    *)
(*   SpecLoad  load on checkpoint files holding any subset of the keys;    *)
(*   SpecLife  models built by name, their statistics updated, saved and   *)
(*             loaded;                                                     *)
(*   SpecGen   generate and the reverse process of sample;                 *)
(*   SpecFit   the entries that start training, on datasets of any shape;  *)
(*   SpecRare  is_rare with and without an explicit threshold;             *)
(*   SpecForward   forward on a module whose statistics are initialized;   *)
(*   SpecScenario  train_model, save and load with a ten-step linear       *)
(*             schedule, its products computed in arbitrary precision;     *)
(*   SpecPStep p_sample_step on batches of timesteps.                      *)
(* Real numbers are exact rationals <<n, d>> with d > 0 in lowest terms.   *)
(* Embeddings have embedding_dim = 1, so mean, covariance and inverse      *)
(* covariance are scalars.                                                 *)
(***************************************************************************)
EXTENDS Integers, Sequences, FiniteSets, TLC

(***************************************************************************)
(* Bounds of the model                                                     *)
(***************************************************************************)
MaxEmb == 1
MaxBatchLen == 2
MaxUpdates == 2

\* Python's None, as a value comparable with rationals and pairs
None == <<>>

(***************************************************************************)
(* Exact rational arithmetic                                               *)
(***************************************************************************)
Abs(x) == IF x < 0 THEN -x ELSE x

RECURSIVE GCD(_, _)
GCD(a, b) == IF b = 0 THEN a ELSE GCD(b, a % b)

RNorm(n, d) ==
  LET g == GCD(Abs(n), d)
  IN  IF n = 0 THEN <<0, 1>> ELSE <<n \div g, d \div g>>

R(n) == <<n, 1>>
RAdd(a, b) ==
  LET g == GCD(a[2], b[2])
  IN  RNorm(a[1] * (b[2] \div g) + b[1] * (a[2] \div g), (a[2] \div g) * b[2])
RNeg(a) == <<-a[1], a[2]>>
RSub(a, b) == RAdd(a, RNeg(b))
RMul(a, b) ==
  LET g1 == IF a[1] = 0 THEN b[2] ELSE GCD(Abs(a[1]), b[2])
      g2 == IF b[1] = 0 THEN a[2] ELSE GCD(Abs(b[1]), a[2])
  IN  RNorm((a[1] \div g1) * (b[1] \div g2), (a[2] \div g2) * (b[2] \div g1))
RInv(a) == IF a[1] < 0 THEN <<-a[2], -a[1]>> ELSE <<a[2], a[1]>>
RDiv(a, b) == RMul(a, RInv(b))
RLess(a, b) ==
  LET g == GCD(a[2], b[2])
  IN  a[1] * (b[2] \div g) < b[1] * (a[2] \div g)
RAbs(a) == <<Abs(a[1]), a[2]>>

RECURSIVE RSum(_)
RSum(s) == IF s = <<>> THEN R(0) ELSE RAdd(Head(s), RSum(Tail(s)))

(***************************************************************************)
(* Exact arithmetic on numbers of any size: a natural number is the        *)
(* sequence of its digits in base 10000, lowest first, without a leading   *)
(* zero digit (zero is the empty sequence); a rational is a sign, a        *)
(* numerator and a denominator, not reduced.                               *)
(***************************************************************************)
RECURSIVE BigOf(_)
BigOf(n) == IF n = 0 THEN <<>> ELSE <<n % 10000>> \o BigOf(n \div 10000)

RECURSIVE BigAdd(_, _, _)
BigAdd(a, b, carry) ==
  IF a = <<>> /\ b = <<>>
  THEN IF carry = 0 THEN <<>> ELSE <<carry>>
  ELSE LET x == (IF a = <<>> THEN 0 ELSE a[1]) + (IF b = <<>> THEN 0 ELSE b[1]) + carry
       IN  <<x % 10000>> \o BigAdd(IF a = <<>> THEN a ELSE Tail(a),
                                    IF b = <<>> THEN b ELSE Tail(b), x \div 10000)

RECURSIVE BigStrip(_)
BigStrip(a) ==
  IF a = <<>> \/ a[Len(a)] # 0 THEN a ELSE BigStrip(SubSeq(a, 1, Len(a) - 1))

\* a - b - borrow for a >= b + borrow, leading zeros kept
RECURSIVE BigSubDigits(_, _, _)
BigSubDigits(a, b, borrow) ==
  IF a = <<>> THEN <<>>
  ELSE LET x == a[1] - (IF b = <<>> THEN 0 ELSE b[1]) - borrow
       IN  <<(x + 10000) % 10000>> \o
             BigSubDigits(Tail(a), IF b = <<>> THEN b ELSE Tail(b),
                          IF x < 0 THEN 1 ELSE 0)

BigSub(a, b) == BigStrip(BigSubDigits(a, b, 0))

RECURSIVE BigLessSameLen(_, _)
BigLessSameLen(a, b) ==
  IF a = <<>> THEN FALSE
  ELSE \/ a[Len(a)] < b[Len(b)]
       \/ /\ a[Len(a)] = b[Len(b)]
          /\ BigLessSameLen(SubSeq(a, 1, Len(a) - 1), SubSeq(b, 1, Len(b) - 1))

BigLess(a, b) ==
  IF Len(a) # Len(b) THEN Len(a) < Len(b) ELSE BigLessSameLen(a, b)

\* a * m + carry for a digit m
RECURSIVE BigMulDigit(_, _, _)
BigMulDigit(a, m, carry) ==
  IF m = 0 THEN BigOf(carry)
  ELSE IF a = <<>> THEN BigOf(carry)
  ELSE LET x == a[1] * m + carry
       IN  <<x % 10000>> \o BigMulDigit(Tail(a), m, x \div 10000)

RECURSIVE BigMul(_, _)
BigMul(a, b) ==
  IF a = <<>> \/ b = <<>> THEN <<>>
  ELSE LET rest == BigMul(a, Tail(b))
       IN  BigAdd(BigMulDigit(a, b[1], 0),
                  IF rest = <<>> THEN rest ELSE <<0>> \o rest, 0)

BigR(neg, num, den) == [neg |-> neg /\ num # <<>>, num |-> num, den |-> den]

\* the rational <<n, d>> as a rational of any size
BigROf(r) == BigR(r[1] < 0, BigOf(Abs(r[1])), BigOf(r[2]))

BigRMul(x, y) == BigR(x.neg # y.neg, BigMul(x.num, y.num), BigMul(x.den, y.den))

\* x / y for y # 0
BigRDiv(x, y) == BigR(x.neg # y.neg, BigMul(x.num, y.den), BigMul(x.den, y.num))

\* 1 - x
BigROneMinus(x) ==
  IF x.neg THEN BigR(FALSE, BigAdd(x.den, x.num, 0), x.den)
  ELSE IF BigLess(x.den, x.num) THEN BigR(TRUE, BigSub(x.num, x.den), x.den)
  ELSE BigR(FALSE, BigSub(x.den, x.num), x.den)

BigRLess(x, y) ==
  LET l == BigMul(x.num, y.den)
      r == BigMul(y.num, x.den)
  IN  IF x.neg /\ ~y.neg THEN TRUE
      ELSE IF ~x.neg /\ y.neg THEN FALSE
      ELSE IF x.neg THEN BigLess(r, l)
      ELSE BigLess(l, r)

(***************************************************************************)
(* ConditioningModule (generator/conditioning.py)                          *)
(***************************************************************************)
VARIABLES
  cond_attrs,             \* names of the instance attributes the module has
  mean_embedding,         \* None or a rational
  cov_embedding,          \* None or <<v, reg>>: the value v + reg * 1e-6
  inverse_cov_embedding,  \* None or <<v, reg>>: the inverse of v + reg * 1e-6
  n_samples,
  cm_call,                \* the method call in progress on the module, or ""
  cm_result,              \* what that call returns, or the error it raises
  cm_updates              \* number of update_running_statistics calls made

cmVars == <<cond_attrs, mean_embedding, cov_embedding, inverse_cov_embedding,
            n_samples, cm_call, cm_result, cm_updates>>

\* alpha=0.8, the EWMA decay of the running statistics
CMAlpha == <<4, 5>>

\* the default percentile of is_rare
DefaultPercentile == <<4, 5>>

\* batches of embeddings: (batch, 1) tensors as sequences of integers
EmbVals == 0..MaxEmb
Batches(minLen) ==
  UNION {[1..n -> EmbVals] : n \in minLen..MaxBatchLen}

\* the attributes ConditioningModule.__init__ assigns
ConditioningModuleInitAttrs ==
  {"embedding_dim", "device", "alpha", "category_embeddings", "mlp",
   "mean_embedding", "cov_embedding", "inverse_cov_embedding", "n_samples"}

AttributeError == "AttributeError"

\* torch.mean(embeddings, dim=0)
BatchMean(embeddings) ==
  RDiv(RSum([i \in 1..Len(embeddings) |-> R(embeddings[i])]), R(Len(embeddings)))

\* centered.T @ centered / (batch_size - 1), without the 1e-6 * eye term
BatchCov(embeddings, mean) ==
  RDiv(RSum([i \in 1..Len(embeddings) |->
               RMul(RSub(R(embeddings[i]), mean), RSub(R(embeddings[i]), mean))]),
       R(Len(embeddings) - 1))

\* a value v + reg * 1e-6, the 1e-6 * eye terms kept apart from the rest
RegVal(v, reg) == <<v, reg>>
V(x) == x[1]
Reg(x) == x[2]

\* what a call returns: the error it raised (or None) and the value returned
Raised(err) == [raised |-> err, value |-> <<>>]
Returned(val) == [raised |-> "", value |-> val]

\* the statistics part of the module's state
Stats(mean, cov, inv, n) ==
  [mean_embedding |-> mean, cov_embedding |-> cov,
   inverse_cov_embedding |-> inv, n_samples |-> n]

initialize_statistics(embeddings) ==
  LET mean == BatchMean(embeddings)
      cov  == RegVal(BatchCov(embeddings, mean), R(1))
  IN  Stats(mean, cov, cov, Len(embeddings))

\* an update whose batch covariance lacks the 1e-6 * eye term
update_running_statistics_unregularized(st, embeddings) ==
  IF st.n_samples = 0
  THEN initialize_statistics(embeddings)
  ELSE
    LET batch_mean == BatchMean(embeddings)
        one_minus  == RSub(R(1), CMAlpha)
        new_mean   == RAdd(RMul(CMAlpha, st.mean_embedding), RMul(one_minus, batch_mean))
        delta      == RSub(batch_mean, new_mean)
        new_cov    ==
          RegVal(RAdd(RAdd(RMul(CMAlpha, V(st.cov_embedding)),
                           RMul(one_minus, BatchCov(embeddings, batch_mean))),
                      RMul(one_minus, RMul(delta, delta))),
                 RMul(CMAlpha, Reg(st.cov_embedding)))
    IN  Stats(new_mean, new_cov, RegVal(V(new_cov), RAdd(Reg(new_cov), R(1))),
              st.n_samples)

update_running_statistics(st, embeddings) ==
  IF st.n_samples = 0
  THEN initialize_statistics(embeddings)
  ELSE
    LET batch_mean == BatchMean(embeddings)
        one_minus  == RSub(R(1), CMAlpha)
        new_mean   == RAdd(RMul(CMAlpha, st.mean_embedding), RMul(one_minus, batch_mean))
        batch_cov  == RegVal(BatchCov(embeddings, batch_mean), R(1))
        \* delta uses the mean that was just updated
        delta      == RSub(batch_mean, new_mean)
        delta_outer == RMul(delta, delta)
        new_cov    ==
          RegVal(RAdd(RAdd(RMul(CMAlpha, V(st.cov_embedding)),
                           RMul(one_minus, V(batch_cov))),
                      RMul(one_minus, delta_outer)),
                 RAdd(RMul(CMAlpha, Reg(st.cov_embedding)),
                      RMul(one_minus, Reg(batch_cov))))
        cov_embedding_reg == RegVal(V(new_cov), RAdd(Reg(new_cov), R(1)))
    IN  Stats(new_mean, new_cov, cov_embedding_reg, st.n_samples)

\* a distance computation that answers zeros when no statistics exist
compute_mahalanobis_distance_placeholder(st, embeddings) ==
  IF st.mean_embedding = None
  THEN Returned([i \in 1..Len(embeddings) |-> [diff |-> R(0), inv_of |-> RegVal(R(1), R(0))]])
  ELSE Returned([i \in 1..Len(embeddings) |->
                   [diff |-> RSub(R(embeddings[i]), st.mean_embedding),
                    inv_of |-> st.inverse_cov_embedding]])

\* Per example the squared distance diff^2 * inverse_cov, kept as the pair
\* (diff^2, the regularised covariance whose inverse is cached); the error
\* when mean_embedding is None (None has no unsqueeze).
compute_mahalanobis_distance(st, embeddings) ==
  IF st.mean_embedding = None
  THEN Raised(AttributeError)
  ELSE Returned([i \in 1..Len(embeddings) |->
                   [diff |-> RSub(R(embeddings[i]), st.mean_embedding),
                    inv_of |-> st.inverse_cov_embedding]])

\* the k-th smallest element (1-based) of a sequence of rationals
KthSmallest(s, k) ==
  CHOOSE x \in {s[i] : i \in 1..Len(s)} :
    /\ Cardinality({i \in 1..Len(s) : RLess(s[i], x)}) < k
    /\ Cardinality({i \in 1..Len(s) : ~RLess(x, s[i])}) >= k

\* a quantile that lies below every element
QuantileBelow(s, q) == RSub(KthSmallest(s, 1), R(1))

\* torch.quantile(values, q), linear interpolation between order statistics
Quantile(s, q) ==
  LET pos  == RMul(q, R(Len(s) - 1))
      lo   == pos[1] \div pos[2]
      frac == RSub(pos, R(lo))
      a    == KthSmallest(s, lo + 1)
      b    == IF lo + 2 <= Len(s) THEN KthSmallest(s, lo + 2) ELSE a
  IN  RAdd(a, RMul(frac, RSub(b, a)))

\* 1 / 1e-6, the reciprocal of the "numerical stability" diagonal term
StabilityEpsInv == 1000000

\* distance > threshold for one example: the distance is |diff| / sqrt(cov),
\* cov = inv_of.v + inv_of.reg * 1e-6 > 0, so for threshold >= 0 the test is
\* diff^2 > threshold^2 * cov, that is lhs > rhs * 1e-6 with
\* lhs = diff^2 - threshold^2 * v and rhs = threshold^2 * reg
DistanceExceeds(d, threshold) ==
  IF threshold[1] < 0 THEN TRUE
  ELSE LET lhs == RSub(RMul(d.diff, d.diff), RMul(RMul(threshold, threshold), V(d.inv_of)))
           rhs == RMul(RMul(threshold, threshold), Reg(d.inv_of))
       IN  /\ lhs[1] > 0
           /\ (rhs[1] * lhs[2]) \div (lhs[1] * rhs[2]) < StabilityEpsInv

\* a rarity test that takes the percentile of the batch whatever threshold
\* it is given
is_rare_by_percentile(st, embeddings, threshold, percentile) ==
  LET mahalanobis_distance == compute_mahalanobis_distance(st, embeddings)
  IN  IF mahalanobis_distance.raised # ""
      THEN mahalanobis_distance
      ELSE LET absdiff == [i \in 1..Len(embeddings) |->
                             RAbs(mahalanobis_distance.value[i].diff)]
               q == Quantile(absdiff, percentile)
           IN  Returned([i \in 1..Len(embeddings) |-> RLess(q, absdiff[i])])

\* threshold None: the percentile of this batch's distances.  All distances
\* of a batch share the factor 1 / sqrt(cov), so the comparison
\* distance > quantile(distances) is the comparison of |diff|.
is_rare(st, embeddings, threshold, percentile) ==
  LET mahalanobis_distance == compute_mahalanobis_distance(st, embeddings)
  IN  IF mahalanobis_distance.raised # ""
      THEN mahalanobis_distance
      ELSE IF threshold = None
           THEN LET absdiff == [i \in 1..Len(embeddings) |->
                                  RAbs(mahalanobis_distance.value[i].diff)]
                    q == Quantile(absdiff, percentile)
                IN  Returned([i \in 1..Len(embeddings) |-> RLess(q, absdiff[i])])
           ELSE Returned([i \in 1..Len(embeddings) |->
                            DistanceExceeds(mahalanobis_distance.value[i], threshold)])

CurrentStats == Stats(mean_embedding, cov_embedding, inverse_cov_embedding, n_samples)

\* explicit thresholds tried by callers
Thresholds == {None, <<-1, 1>>, <<1, 2>>, R(1)}

InitCM ==
  /\ cond_attrs = ConditioningModuleInitAttrs
  /\ mean_embedding = None
  /\ cov_embedding = None
  /\ inverse_cov_embedding = None
  /\ n_samples = 0
  /\ cm_call = ""
  /\ cm_result = Returned(None)
  /\ cm_updates = 0

\* calls do not overlap: the module is used from one thread
CMUpdateRunningStatistics(embeddings) ==
  /\ cm_call = ""
  /\ cm_updates < MaxUpdates
  /\ LET st == update_running_statistics(CurrentStats, embeddings)
     IN  /\ mean_embedding' = st.mean_embedding
         /\ cov_embedding' = st.cov_embedding
         /\ inverse_cov_embedding' = st.inverse_cov_embedding
         /\ n_samples' = st.n_samples
  /\ cm_call' = "update_running_statistics"
  /\ cm_result' = Returned(None)
  /\ cm_updates' = cm_updates + 1
  /\ UNCHANGED cond_attrs

CMComputeMahalanobisDistance(embeddings) ==
  /\ cm_call = ""
  /\ cm_call' = "compute_mahalanobis_distance"
  /\ cm_result' = compute_mahalanobis_distance(CurrentStats, embeddings)
  /\ UNCHANGED <<cond_attrs, mean_embedding, cov_embedding, inverse_cov_embedding,
                 n_samples, cm_updates>>

CMIsRare(embeddings, threshold) ==
  /\ cm_call = ""
  /\ cm_call' = "is_rare"
  /\ cm_result' = is_rare(CurrentStats, embeddings, threshold, DefaultPercentile)
  /\ UNCHANGED <<cond_attrs, mean_embedding, cov_embedding, inverse_cov_embedding,
                 n_samples, cm_updates>>



\* the call in progress returns (or its error propagates) to the caller
CMReturn ==
  /\ cm_call # ""
  /\ cm_call' = ""
  /\ cm_result' = Returned(None)
  /\ UNCHANGED <<cond_attrs, mean_embedding, cov_embedding, inverse_cov_embedding,
                 n_samples, cm_updates>>

(***************************************************************************)
(* DDPM (generator/diffcharge/diffusion.py)                                *)
(***************************************************************************)
MaxWarmUp == 2
MaxEpochs == 2
MaxData == 2
MaxBatchSize == 2
MaxUpdateEvery == 2
MaxSaveCycle == 2
MaxSteps == 2
MaxLoss == 1
MaxKl == 1
MaxTrainCalls == 1

VARIABLES
  cfg,                 \* the configuration the DDPM was constructed with
  pc,                  \* where train_model is: "new" before the first call
  raised,              \* the error that ended the last train_model call, or ""
  train_calls,         \* number of train_model calls started
  n_data,              \* len(train_dataset) of the running call
  epoch,               \* the loop variable of train_model
  batch_pos,           \* batches of the current epoch already processed
  current_epoch,
  gmm_fitted,
  cond_params,         \* weights of the conditioning module
  cond_requires_grad,
  cond_training,       \* conditioning_module.training
  eps_params,          \* weights of the noise-prediction network
  optimizer_params,    \* the modules whose parameters the optimizer holds
  optimizer_state,     \* Adam's state: the number of steps it has taken
  lr_scheduler_steps,
  ema_step,            \* EMA.step
  ema_params,          \* weights of ema.ema_model, a rational
  ema_requires_grad,
  beta, alpha, alpha_bar, sigma2,   \* the noise-schedule arrays
  loss,                \* the loss of the batch being processed
  rare_mask,
  mask_source,         \* how rare_mask was computed: "zeros" or "mahalanobis"
  files,               \* the checkpoint store: path -> <<>> or <<bundle>>
  opt_steps,           \* history: optimizer.step() calls made
  ema_blends,          \* history: EMA.update calls that blended
  fit_gmm_calls,       \* history: fit_gmm calls made
  rw_batches,          \* history: batches whose loss had the reweighted form
  eps_model_class,     \* the class of the noise-prediction network
  data_shape,          \* the shape of one example of train_dataset
  saved_cm             \* history: path -> <<>> or <<the statistics and the
                       \* fitted status of the model that wrote the file>>

ddpmVars == <<cfg, pc, raised, train_calls, n_data, epoch, batch_pos, current_epoch,
              gmm_fitted, cond_params, cond_requires_grad, cond_training,
              eps_params, optimizer_params, optimizer_state, lr_scheduler_steps,
              ema_step, ema_params, ema_requires_grad,
              beta, alpha, alpha_bar, sigma2, loss, rare_mask, mask_source, files,
              opt_steps, ema_blends, fit_gmm_calls, rw_batches,
              eps_model_class, data_shape, saved_cm>>

\* DDPM.generate and the DDPM.sample call it makes
VARIABLES
  gen_pc,              \* "idle", "batch", "sample", "done" or "raised"
  gen_raised,          \* the error that ended generate and where it was raised
  conditioning_vars,   \* the requested rows: one category code per row
  start_idx,
  generated_samples,   \* the list generate appends the batches' samples to
  sample_model,        \* the network sample uses: "eps_model" or "ema_model"
  sample_x,            \* x of sample: its shape and the rows it belongs to
  sample_z,            \* z of sample: its shape and the rows it embeds
  sample_t,            \* the loop variable t of sample
  sample_steps,        \* history: the denoising steps of the sample call
  p_step               \* the last p_sample_step call: its timesteps and its noise

genVars == <<gen_pc, gen_raised, conditioning_vars, start_idx, generated_samples,
             sample_model, sample_x, sample_z, sample_t, sample_steps, p_step>>

vars == <<cmVars, ddpmVars, genVars>>

\* cfg.model.sparse_conditioning_loss_weight, cfg.model.kl_weight and
\* cfg.model.ema_decay of the modelled configurations
Lam == <<3, 4>>
KlWeight == <<1, 10>>
EmaDecay == <<1, 2>>

\* configurations: the training fields vary, the others are drawn from the
\* given sets
ConfigsWith(networks, schedules, sampling_batch_sizes, ema_samplings) ==
  [warm_up_epochs : 0..MaxWarmUp,
   n_epochs : 0..MaxEpochs,
   batch_size : 1..MaxBatchSize,
   ema_update_interval : 1..MaxUpdateEvery,
   save_cycle : 1..MaxSaveCycle,
   n_steps : {MaxSteps},
   network : networks,
   schedule : schedules,
   sampling_batch_size : sampling_batch_sizes,
   use_ema_sampling : ema_samplings,
   seq_len : {2},
   input_dim : {1}]

Configs == ConfigsWith({"cnn"}, {"linear"}, {1}, {FALSE})

\* a configuration that trains nothing: no epochs
IdleCfg(network, schedule, sampling_batch_size, ema_sampling) ==
  [warm_up_epochs |-> 0, n_epochs |-> 0, batch_size |-> 1,
   ema_update_interval |-> 1, save_cycle |-> 1, n_steps |-> MaxSteps,
   network |-> network, schedule |-> schedule,
   sampling_batch_size |-> sampling_batch_size,
   use_ema_sampling |-> ema_sampling, seq_len |-> 2, input_dim |-> 1]

LossVals == 1..MaxLoss
KlVals == 0..MaxKl

\* torch.linspace(first, last, n)
Linspace(first, last, n) ==
  [i \in 1..n |->
     IF n = 1 THEN first
     ELSE RAdd(first, RMul(RDiv(R(i - 1), R(n - 1)), RSub(last, first)))]

linear_beta_schedule(timesteps) ==
  LET scale == RDiv(R(1000), R(timesteps))
      beta_start == RMul(scale, <<1, 10000>>)
      beta_end == RMul(scale, <<2, 100>>)
  IN  Linspace(beta_start, beta_end, timesteps)

\* cfg.model.beta_start and cfg.model.beta_end of the modelled
\* configurations, as <<numerator, denominator>>; both are perfect squares
BetaStart == <<1, 10000>>
BetaEnd == <<1, 25>>

\* the square root of a rational that is a perfect square
ISqrt(n) == CHOOSE k \in 0..n : k * k = n
RSqrt(r) == <<ISqrt(r[1]), ISqrt(r[2])>>

\* torch.linspace(beta_start**0.5, beta_end**0.5, n_steps) ** 2
quadratic_beta_schedule(timesteps) ==
  LET roots == Linspace(RSqrt(BetaStart), RSqrt(BetaEnd), timesteps)
  IN  [i \in 1..timesteps |-> RMul(roots[i], roots[i])]

\* the schedule branch of DDPM.__init__: "linear", or the final else for
\* every other name (no modelled configuration names "cosine")
BetaSchedule(c) ==
  IF c.schedule = "linear" THEN linear_beta_schedule(c.n_steps)
  ELSE quadratic_beta_schedule(c.n_steps)

\* the network branch of DDPM.__init__: Attention for "attention", CNN for
\* every other name
NetworkClass(c) == IF c.network = "attention" THEN "Attention" ELSE "CNN"

\* torch.cumprod(a, dim=0)
RECURSIVE CumProd(_)
CumProd(a) ==
  IF Len(a) <= 1 THEN a
  ELSE LET front == CumProd(SubSeq(a, 1, Len(a) - 1))
       IN  Append(front, RMul(front[Len(front)], a[Len(a)]))

Alpha(b) == [i \in 1..Len(b) |-> RSub(R(1), b[i])]

\* sigma2[0] = beta[0]; sigma2[t] = beta[t] * (1 - alpha_bar[t-1]) / (1 - alpha_bar[t])
Sigma2(b, ab) ==
  [i \in 1..Len(b) |->
     IF i = 1 THEN b[1]
     ELSE RDiv(RMul(b[i], RSub(R(1), ab[i - 1])), RSub(R(1), ab[i]))]

\* an optimizer over the network and the conditioning module
OptimizerParamsWithConditioning == {"eps_model", "conditioning_module"}

\* torch.optim.Adam(self.eps_model.parameters(), ...)
OptimizerParams == {"eps_model"}

\* a deep copy whose parameters keep requires_grad
EmaKeepsRequiresGrad == TRUE

\* EMA.__init__: requires_grad of the parameters of the deep copy
EmaInitRequiresGrad == FALSE

NoLoss ==
  [form |-> "none", rec |-> R(0), kl |-> R(0), loss_rare |-> R(0),
   loss_non_rare |-> R(0), N_r |-> 0, N_nr |-> 0, N |-> 0, loss_main |-> R(0)]

\* checkpoint paths: ddpm_checkpoint_<e>.pt of the run directory for each
\* epoch number e, and one path outside the run directory
ExternalPath == -1
Paths == {ExternalPath} \cup 0..MaxEpochs

\* no error
NoError == [error |-> "", at |-> ""]

\* no tensor yet
NoTensor == [shape |-> <<>>, rows |-> <<>>]

\* no p_sample_step call yet
NoStep == [raised |-> "", t |-> <<>>, added |-> <<>>]

\* the state of generate before any call
InitGen ==
  /\ gen_pc = "idle"
  /\ gen_raised = NoError
  /\ conditioning_vars = <<>>
  /\ start_idx = 0
  /\ generated_samples = <<>>
  /\ sample_model = ""
  /\ sample_x = NoTensor
  /\ sample_z = NoTensor
  /\ sample_t = 0
  /\ sample_steps = <<>>
  /\ p_step = NoStep

\* DDPM.__init__ (with the ConditioningModule it constructs), all fields
\* but the two schedule arrays computed from the cumulative product
InitObject(cfgs) ==
  /\ InitCM
  /\ cfg \in cfgs
  /\ pc = "new"
  /\ raised = ""
  /\ train_calls = 0
  /\ n_data = 0
  /\ epoch = 0
  /\ batch_pos = 0
  /\ current_epoch = 0
  /\ gmm_fitted = FALSE
  /\ cond_params = 0
  /\ cond_requires_grad = TRUE
  /\ cond_training = TRUE
  /\ eps_params = 0
  /\ optimizer_params = OptimizerParams
  /\ optimizer_state = 0
  /\ lr_scheduler_steps = 0
  /\ ema_step = 0
  /\ ema_params = R(0)
  /\ ema_requires_grad = EmaInitRequiresGrad
  /\ InitGen
  /\ eps_model_class = NetworkClass(cfg)
  /\ data_shape = None
  /\ saved_cm = [p \in Paths |-> <<>>]
  /\ beta = BetaSchedule(cfg)
  /\ alpha = Alpha(beta)
  /\ loss = NoLoss
  /\ rare_mask = <<>>
  /\ mask_source = ""
  /\ files = [p \in Paths |-> <<>>]
  /\ opt_steps = 0
  /\ ema_blends = 0
  /\ fit_gmm_calls = 0
  /\ rw_batches = 0

\* DDPM.__init__ (with the ConditioningModule it constructs)
InitWith(cfgs) ==
  /\ InitObject(cfgs)
  /\ alpha_bar = CumProd(alpha)
  /\ sigma2 = Sigma2(beta, alpha_bar)

Init == InitWith(Configs)

NotTraining == pc \in {"new", "done", "raised"}

\* len(train_loader) and the size of its k-th batch (1-based), drop_last=False
NumBatches == (n_data + cfg.batch_size - 1) \div cfg.batch_size
BatchSize(k) ==
  IF k * cfg.batch_size <= n_data THEN cfg.batch_size
  ELSE n_data - (k - 1) * cfg.batch_size

\* the shape (sequence length, feature dimension) of an example that the
\* configuration announces
ExpectedShape == <<cfg.seq_len, cfg.input_dim>>

\* train_model up to the epoch loop
TrainStart(n, shape) ==
  /\ NotTraining
  /\ train_calls < MaxTrainCalls
  /\ train_calls' = train_calls + 1
  /\ n_data' = n
  /\ data_shape' = shape
  /\ cond_training' = TRUE
  /\ epoch' = 0
  /\ batch_pos' = 0
  /\ raised' = ""
  /\ loss' = NoLoss
  /\ rare_mask' = <<>>
  /\ mask_source' = ""
  /\ pc' = "epoch"
  /\ UNCHANGED <<cmVars, genVars, eps_model_class, saved_cm,
                 cfg, current_epoch, gmm_fitted, cond_params, cond_requires_grad,
                 eps_params, optimizer_params, optimizer_state, lr_scheduler_steps,
                 ema_step, ema_params, ema_requires_grad, beta, alpha, alpha_bar, sigma2,
                 files, opt_steps, ema_blends, fit_gmm_calls, rw_batches>>

\* a freeze that starts one epoch late
FreezeAtLate(e) == e > cfg.warm_up_epochs + 1

\* whether the conditioning module's parameters are frozen at the head of
\* the epoch whose 1-based number is e
FreezeAt(e) == e > cfg.warm_up_epochs

\* the head of one iteration of the epoch loop
EpochBegin ==
  /\ pc = "epoch"
  /\ epoch < cfg.n_epochs
  /\ current_epoch' = epoch + 1
  /\ cond_requires_grad' = IF FreezeAt(epoch + 1) THEN FALSE ELSE cond_requires_grad
  /\ batch_pos' = 0
  /\ pc' = "batch"
  /\ UNCHANGED <<cmVars, genVars, eps_model_class, data_shape, saved_cm,
                 cfg, raised, train_calls, n_data, epoch, gmm_fitted, cond_params,
                 cond_training, eps_params, optimizer_params, optimizer_state,
                 lr_scheduler_steps, ema_step, ema_params, ema_requires_grad,
                 beta, alpha, alpha_bar, sigma2, loss, rare_mask, mask_source, files,
                 opt_steps, ema_blends, fit_gmm_calls, rw_batches>>

\* the epoch loop is exhausted: "Training complete"
TrainComplete ==
  /\ pc = "epoch"
  /\ epoch >= cfg.n_epochs
  /\ pc' = "done"
  /\ UNCHANGED <<cmVars, genVars, eps_model_class, data_shape, saved_cm,
                 cfg, raised, train_calls, n_data, epoch, batch_pos, current_epoch,
                 gmm_fitted, cond_params, cond_requires_grad, cond_training,
                 eps_params, optimizer_params, optimizer_state, lr_scheduler_steps,
                 ema_step, ema_params, ema_requires_grad,
                 beta, alpha, alpha_bar, sigma2, loss, rare_mask, mask_source, files,
                 opt_steps, ema_blends, fit_gmm_calls, rw_batches>>

\* the embeddings mu of a batch of n examples
BatchesOfLen(n) == [1..n -> EmbVals]

\* a warm-up test that ends one epoch early
InWarmUpStrict(e) == e < cfg.warm_up_epochs

\* the warm-up test of train_model for the epoch whose 1-based number is e
InWarmUp(e) == e <= cfg.warm_up_epochs

\* a mask (or the error raised instead) with the way it was computed
MaskFrom(source, r) == [raised |-> r.raised, value |-> r.value, source |-> source]

\* the mask without the gmm_fitted test: is_rare is always asked
RareMaskNoFallback(mu) ==
  LET r == is_rare(CurrentStats, mu, None, DefaultPercentile)
  IN  IF r.raised # "" THEN MaskFrom("mahalanobis", r)
      ELSE MaskFrom("mahalanobis",
                    Returned([i \in 1..Len(mu) |-> IF r.value[i] THEN 1 ELSE 0]))

\* rare_mask of a post-warm-up batch with embeddings mu (as floats 1 / 0), or
\* the error is_rare raised
RareMask(mu) ==
  IF gmm_fitted
  THEN LET r == is_rare(CurrentStats, mu, None, DefaultPercentile)
       IN  IF r.raised # "" THEN MaskFrom("mahalanobis", r)
           ELSE MaskFrom("mahalanobis",
                         Returned([i \in 1..Len(mu) |-> IF r.value[i] THEN 1 ELSE 0]))
  ELSE MaskFrom("zeros", Returned([i \in 1..Len(mu) |-> 0]))

RECURSIVE SeqSum(_)
SeqSum(s) == IF s = <<>> THEN 0 ELSE Head(s) + SeqSum(Tail(s))

\* loss_main of a warm-up batch: cal_loss plus kl_weight times the KL term
WarmUpLoss(rec, kl) ==
  [form |-> "warmup", rec |-> R(rec), kl |-> R(kl), loss_rare |-> R(0),
   loss_non_rare |-> R(0), N_r |-> 0, N_nr |-> 0, N |-> 0,
   loss_main |-> RAdd(R(rec), RMul(KlWeight, R(kl)))]

\* a reweighted loss that calls cal_loss on both sub-batches, empty or not
ReweightedLossNoEmptyCheck(mask, lr, lnr) ==
  LET N_r == SeqSum(mask)
      N_nr == SeqSum([i \in 1..Len(mask) |-> 1 - mask[i]])
      N == Len(mask)
  IN  [form |-> "reweighted", rec |-> R(0), kl |-> R(0),
       loss_rare |-> R(lr), loss_non_rare |-> R(lnr),
       N_r |-> N_r, N_nr |-> N_nr, N |-> N,
       loss_main |->
         RAdd(RMul(RMul(Lam, RDiv(R(N_r), R(N))), R(lr)),
              RMul(RMul(RSub(R(1), Lam), RDiv(R(N_nr), R(N))), R(lnr)))]

\* (rare_mask == 1.0).nonzero() and (rare_mask == 0.0).nonzero(): the
\* positions of the batch that go into the rare and the non-rare sub-batch
rare_idx(mask) == {i \in 1..Len(mask) : mask[i] = 1}

non_rare_idx(mask) == {i \in 1..Len(mask) : mask[i] = 0}

\* a reweighted loss whose non-rare count sums the mask and not its complement
ReweightedLossUncomplemented(mask, lr, lnr) ==
  LET loss_rare == IF Cardinality(rare_idx(mask)) > 0 THEN R(lr) ELSE R(0)
      loss_non_rare == IF Cardinality(non_rare_idx(mask)) > 0 THEN R(lnr) ELSE R(0)
      N_r == SeqSum(mask)
      N_nr == SeqSum(mask)
      N == Len(mask)
  IN  [form |-> "reweighted", rec |-> R(0), kl |-> R(0),
       loss_rare |-> loss_rare, loss_non_rare |-> loss_non_rare,
       N_r |-> N_r, N_nr |-> N_nr, N |-> N,
       loss_main |->
         RAdd(RMul(RMul(Lam, RDiv(R(N_r), R(N))), loss_rare),
              RMul(RMul(RSub(R(1), Lam), RDiv(R(N_nr), R(N))), loss_non_rare))]

\* loss_main of a post-warm-up batch with the given mask; lr and lnr are what
\* cal_loss returns for the rare and the non-rare sub-batch when it is called
ReweightedLoss(mask, lr, lnr) ==
  LET loss_rare == IF Cardinality(rare_idx(mask)) > 0 THEN R(lr) ELSE R(0)
      loss_non_rare == IF Cardinality(non_rare_idx(mask)) > 0 THEN R(lnr) ELSE R(0)
      N_r == SeqSum(mask)
      N_nr == SeqSum([i \in 1..Len(mask) |-> 1 - mask[i]])
      N == Len(mask)
  IN  [form |-> "reweighted", rec |-> R(0), kl |-> R(0),
       loss_rare |-> loss_rare, loss_non_rare |-> loss_non_rare,
       N_r |-> N_r, N_nr |-> N_nr, N |-> N,
       loss_main |->
         RAdd(RMul(RMul(Lam, RDiv(R(N_r), R(N))), loss_rare),
              RMul(RMul(RSub(R(1), Lam), RDiv(R(N_nr), R(N))), loss_non_rare))]

\* what the noise-prediction network does with a batch whose examples have
\* the given shape: "" when it answers, else the error it raises.  The
\* network classes are no part of these sources: a batch of the configured
\* shape is answered, a batch of another shape is answered or refused.
NetworkOutcomes(shape) ==
  IF shape = ExpectedShape THEN {""} ELSE {"", "RuntimeError"}

\* one batch up to the computation of loss_main
BatchLoss ==
  /\ pc = "batch"
  /\ batch_pos < NumBatches
  /\ \E mu \in BatchesOfLen(BatchSize(batch_pos + 1)) :
     \E rec \in LossVals, kl \in KlVals, lr \in LossVals, lnr \in LossVals :
     \E net \in NetworkOutcomes(data_shape) :
       IF InWarmUp(current_epoch)
       THEN IF net # ""
            THEN /\ raised' = net
                 /\ pc' = "raised"
                 /\ UNCHANGED <<loss, rare_mask, mask_source, rw_batches>>
            ELSE /\ loss' = WarmUpLoss(rec, kl)
                 /\ pc' = "step"
                 /\ UNCHANGED <<rare_mask, mask_source, raised, rw_batches>>
       ELSE LET m == RareMask(mu)
            IN  IF m.raised # ""
                THEN /\ raised' = m.raised
                     /\ pc' = "raised"
                     /\ UNCHANGED <<loss, rare_mask, mask_source, rw_batches>>
                ELSE IF net # ""
                THEN /\ raised' = net
                     /\ pc' = "raised"
                     /\ UNCHANGED <<loss, rare_mask, mask_source, rw_batches>>
                ELSE /\ rare_mask' = m.value
                     /\ mask_source' = m.source
                     /\ loss' = ReweightedLoss(m.value, lr, lnr)
                     /\ rw_batches' = rw_batches + 1
                     /\ pc' = "step"
                     /\ UNCHANGED raised
  /\ UNCHANGED <<cmVars, genVars, eps_model_class, data_shape, saved_cm,
                 cfg, train_calls, n_data, epoch, batch_pos, current_epoch,
                 gmm_fitted, cond_params, cond_requires_grad, cond_training,
                 eps_params, optimizer_params, optimizer_state, lr_scheduler_steps,
                 ema_step, ema_params, ema_requires_grad,
                 beta, alpha, alpha_bar, sigma2, files,
                 opt_steps, ema_blends, fit_gmm_calls>>

\* what one optimizer step can do to the weights of a module it holds:
\* weights are a number that every step on them increases by one
Stepped(w) == {w + 1}

\* optimizer.zero_grad(); loss_main.backward(); optimizer.step()
OptimizerStep ==
  /\ pc = "step"
  /\ eps_params' \in
       IF "eps_model" \in optimizer_params THEN Stepped(eps_params) ELSE {eps_params}
  /\ cond_params' \in
       IF "conditioning_module" \in optimizer_params /\ cond_requires_grad
       THEN Stepped(cond_params) ELSE {cond_params}
  /\ ema_params' \in
       IF "ema_model" \in optimizer_params /\ ema_requires_grad
       THEN {RAdd(ema_params, R(1))} ELSE {ema_params}
  /\ optimizer_state' = optimizer_state + 1
  /\ opt_steps' = opt_steps + 1
  /\ pc' = "ema"
  /\ UNCHANGED <<cmVars, genVars, eps_model_class, data_shape, saved_cm,
                 cfg, raised, train_calls, n_data, epoch, batch_pos, current_epoch,
                 gmm_fitted, cond_requires_grad, cond_training, optimizer_params,
                 lr_scheduler_steps, ema_step, ema_requires_grad,
                 beta, alpha, alpha_bar, sigma2, loss, rare_mask, mask_source, files,
                 ema_blends, fit_gmm_calls, rw_batches>>

\* an update that blends on every call
EmaBlendsEveryStep(step) == TRUE

\* whether the EMA.update call that makes the counter equal to step blends
EmaBlends(step) == step % cfg.ema_update_interval = 0

\* ema_param.mul_(beta).add_(model_param, alpha=1 - beta)
EmaBlend(shadow, live) ==
  RAdd(RMul(EmaDecay, shadow), RMul(RSub(R(1), EmaDecay), R(live)))

\* self.ema.update() and the end of the batch iteration, where the
\* iteration's locals (loss_main, rare_mask) go out of use
EmaUpdate ==
  /\ pc = "ema"
  /\ ema_step' = ema_step + 1
  /\ IF EmaBlends(ema_step + 1)
     THEN /\ ema_params' = EmaBlend(ema_params, eps_params)
          /\ ema_blends' = ema_blends + 1
     ELSE UNCHANGED <<ema_params, ema_blends>>
  /\ batch_pos' = batch_pos + 1
  /\ loss' = NoLoss
  /\ rare_mask' = <<>>
  /\ mask_source' = ""
  /\ pc' = "batch"
  /\ UNCHANGED <<cmVars, genVars, eps_model_class, data_shape, saved_cm,
                 cfg, raised, train_calls, n_data, epoch, current_epoch,
                 gmm_fitted, cond_params, cond_requires_grad, cond_training,
                 eps_params, optimizer_params, optimizer_state, lr_scheduler_steps,
                 ema_requires_grad, beta, alpha, alpha_bar, sigma2,
                 files, opt_steps, fit_gmm_calls, rw_batches>>

\* DDPM.fit_gmm: what it raises (or "") and what it leaves behind.  The
\* GaussianMixture is built from conditioning_module.n_components, an
\* attribute read with nn.Module.__getattr__, which raises AttributeError for
\* a name the module does not have.
fit_gmm ==
  IF "n_components" \notin cond_attrs
  THEN [raised |-> AttributeError, cond_attrs |-> cond_attrs,
        gmm_fitted |-> gmm_fitted, cond_training |-> FALSE]
  ELSE [raised |-> "", cond_attrs |-> cond_attrs \cup {"gmm", "log_prob_threshold"},
        gmm_fitted |-> TRUE, cond_training |-> FALSE]

\* whether the end of the epoch (its 1-based number in current_epoch) fits
\* the mixture
FitDue == current_epoch = cfg.warm_up_epochs /\ ~gmm_fitted

\* the bundle DDPM.save writes; e is its epoch argument
Bundle(e) ==
  [epoch |-> e,
   eps_model_state_dict |-> eps_params,
   optimizer_state_dict |-> optimizer_state,
   ema_state_dict |-> ema_params,
   alpha_bar |-> alpha_bar,
   beta |-> beta,
   conditioning_module_state_dict |-> cond_params]

\* DDPM.save(path=None, epoch=e): the file name carries e, or current_epoch
\* when e is 0 or None
SavedFiles(e) ==
  [files EXCEPT ![IF e # 0 THEN e ELSE current_epoch] = <<Bundle(e)>>]

\* the statistics and the fitted status of the model that writes a file
SavedCm(e) ==
  [saved_cm EXCEPT ![IF e # 0 THEN e ELSE current_epoch] =
     <<[stats |-> CurrentStats, gmm_fitted |-> gmm_fitted]>>]

\* the end of one iteration of the epoch loop: lr_scheduler.step, the
\* mixture fit when it is due, the periodic checkpoint
EpochEnd ==
  /\ pc = "batch"
  /\ batch_pos >= NumBatches
  /\ lr_scheduler_steps' = lr_scheduler_steps + 1
  /\ IF FitDue
     THEN /\ fit_gmm_calls' = fit_gmm_calls + 1
          /\ cond_attrs' = fit_gmm.cond_attrs
          /\ gmm_fitted' = fit_gmm.gmm_fitted
          /\ cond_training' = fit_gmm.cond_training
          /\ raised' = fit_gmm.raised
     ELSE UNCHANGED <<fit_gmm_calls, cond_attrs, gmm_fitted, cond_training, raised>>
  /\ IF FitDue /\ fit_gmm.raised # ""
     THEN /\ pc' = "raised"
          /\ UNCHANGED <<files, saved_cm, epoch>>
     ELSE /\ files' = IF (epoch + 1) % cfg.save_cycle = 0
                      THEN SavedFiles(current_epoch) ELSE files
          /\ saved_cm' = IF (epoch + 1) % cfg.save_cycle = 0
                         THEN SavedCm(current_epoch) ELSE saved_cm
          /\ epoch' = epoch + 1
          /\ pc' = "epoch"
  /\ UNCHANGED <<mean_embedding, cov_embedding, inverse_cov_embedding, n_samples,
                 cm_call, cm_result, cm_updates, genVars, eps_model_class, data_shape,
                 cfg, train_calls, n_data, batch_pos, current_epoch,
                 cond_params, cond_requires_grad,
                 eps_params, optimizer_params, optimizer_state,
                 ema_step, ema_params, ema_requires_grad,
                 beta, alpha, alpha_bar, sigma2, loss, rare_mask, mask_source,
                 opt_steps, ema_blends, rw_batches>>

\* DDPM.save() called between train_model calls
Save ==
  /\ NotTraining
  /\ files' = SavedFiles(current_epoch)
  /\ saved_cm' = SavedCm(current_epoch)
  /\ UNCHANGED <<cmVars, genVars, eps_model_class, data_shape,
                 cfg, pc, raised, train_calls, n_data, epoch, batch_pos,
                 current_epoch, gmm_fitted, cond_params, cond_requires_grad,
                 cond_training, eps_params, optimizer_params, optimizer_state,
                 lr_scheduler_steps, ema_step, ema_params, ema_requires_grad,
                 beta, alpha, alpha_bar, sigma2, loss, rare_mask, mask_source,
                 opt_steps, ema_blends, fit_gmm_calls, rw_batches>>

FileNotFoundError == "FileNotFoundError"

\* a missing file reported with a generic error
RaisesGenericError(path) == IF files[path] = <<>> THEN "RuntimeError" ELSE ""

\* if not os.path.exists(path): raise FileNotFoundError
ExistsOrRaise(path) == IF files[path] = <<>> THEN FileNotFoundError ELSE ""

\* a restore that skips a component although its key is present
NotRestored(ckp, key, current) == current

\* if key in ckp: component = ckp[key]; the component is left alone otherwise
Restored(ckp, key, current) ==
  IF key \in DOMAIN ckp THEN ckp[key] ELSE current

\* DDPM.load(path) called between train_model calls
Load(path) ==
  /\ NotTraining
  /\ IF ExistsOrRaise(path) # ""
     THEN /\ raised' = ExistsOrRaise(path)
          /\ UNCHANGED <<eps_params, optimizer_state, ema_params, alpha_bar, beta,
                         cond_params, current_epoch>>
     ELSE LET ckp == files[path][1]
          IN  /\ eps_params' = Restored(ckp, "eps_model_state_dict", eps_params)
              /\ optimizer_state' = Restored(ckp, "optimizer_state_dict", optimizer_state)
              /\ ema_params' = Restored(ckp, "ema_state_dict", ema_params)
              /\ alpha_bar' = Restored(ckp, "alpha_bar", alpha_bar)
              /\ beta' = Restored(ckp, "beta", beta)
              /\ cond_params' =
                   Restored(ckp, "conditioning_module_state_dict", cond_params)
              /\ current_epoch' = Restored(ckp, "epoch", current_epoch)
              /\ raised' = ""
  /\ UNCHANGED <<cmVars, genVars, eps_model_class, data_shape, saved_cm,
                 cfg, pc, train_calls, n_data, epoch, batch_pos,
                 gmm_fitted, cond_requires_grad, cond_training, optimizer_params,
                 lr_scheduler_steps, ema_step, ema_requires_grad,
                 alpha, sigma2, loss, rare_mask, mask_source, files,
                 opt_steps, ema_blends, fit_gmm_calls, rw_batches>>

Next ==
  \/ \E n \in 1..MaxData : TrainStart(n, ExpectedShape)
  \/ EpochBegin
  \/ BatchLoss
  \/ OptimizerStep
  \/ EmaUpdate
  \/ EpochEnd
  \/ TrainComplete
  \/ Save
  \/ \E p \in Paths : Load(p)

Spec == Init /\ [][Next]_vars

(***************************************************************************)
(* A ConditioningModule driven through its methods                         *)
(***************************************************************************)
InitAlone ==
  /\ Init
  /\ cfg = IdleCfg("cnn", "linear", 1, FALSE)

NextAlone ==
  \/ \E e \in Batches(2) : CMUpdateRunningStatistics(e) /\ UNCHANGED <<ddpmVars, genVars>>
  \/ \E e \in Batches(1) : CMComputeMahalanobisDistance(e) /\ UNCHANGED <<ddpmVars, genVars>>
  \/ \E e \in Batches(1) : \E c \in Thresholds : CMIsRare(e, c) /\ UNCHANGED <<ddpmVars, genVars>>
  \/ CMReturn /\ UNCHANGED <<ddpmVars, genVars>>

SpecCM == InitAlone /\ [][NextAlone]_vars

(***************************************************************************)
(* is_rare called with every threshold and percentile                      *)
(***************************************************************************)
\* the percentile arguments tried by callers
Percentiles == {<<1, 2>>, DefaultPercentile, R(1)}

CMIsRareWith(embeddings, threshold, percentile) ==
  /\ cm_call = ""
  /\ cm_call' = "is_rare"
  /\ cm_result' = is_rare(CurrentStats, embeddings, threshold, percentile)
  /\ UNCHANGED <<cond_attrs, mean_embedding, cov_embedding, inverse_cov_embedding,
                 n_samples, cm_updates>>

NextRare ==
  \/ \E e \in Batches(2) : CMUpdateRunningStatistics(e) /\ UNCHANGED <<ddpmVars, genVars>>
  \/ \E e \in Batches(1) : CMComputeMahalanobisDistance(e) /\ UNCHANGED <<ddpmVars, genVars>>
  \/ \E e \in Batches(1) : \E c \in Thresholds : \E p \in Percentiles :
       CMIsRareWith(e, c, p) /\ UNCHANGED <<ddpmVars, genVars>>
  \/ CMReturn /\ UNCHANGED <<ddpmVars, genVars>>

SpecRare == InitAlone /\ [][NextRare]_vars

(***************************************************************************)
(* A DDPM that loads checkpoints written elsewhere                         *)
(***************************************************************************)
\* the bundle another DDPM saved: quadratic schedule, other weights, one
\* epoch of one batch trained
OtherBundle ==
  [epoch |-> 1,
   eps_model_state_dict |-> 1,
   optimizer_state_dict |-> 1,
   ema_state_dict |-> <<1, 2>>,
   alpha_bar |-> CumProd(Alpha(quadratic_beta_schedule(MaxSteps))),
   beta |-> quadratic_beta_schedule(MaxSteps),
   conditioning_module_state_dict |-> 1]

\* the keys save writes
CheckpointKeys == DOMAIN OtherBundle

\* a checkpoint file with only the given keys is put at the external path
ExternalCheckpoint(keys) ==
  /\ NotTraining
  /\ files' = [files EXCEPT ![ExternalPath] = <<[k \in keys |-> OtherBundle[k]]>>]
  /\ UNCHANGED <<cmVars, genVars, eps_model_class, data_shape, saved_cm,
                 cfg, pc, raised, train_calls, n_data, epoch, batch_pos,
                 current_epoch, gmm_fitted, cond_params, cond_requires_grad,
                 cond_training, eps_params, optimizer_params, optimizer_state,
                 lr_scheduler_steps, ema_step, ema_params, ema_requires_grad,
                 beta, alpha, alpha_bar, sigma2, loss, rare_mask, mask_source,
                 opt_steps, ema_blends, fit_gmm_calls, rw_batches>>

NextLoad ==
  \/ \E keys \in SUBSET CheckpointKeys : ExternalCheckpoint(keys)
  \/ \E p \in Paths : Load(p)

SpecLoad == InitAlone /\ [][NextLoad]_vars

(***************************************************************************)
(* Models built by name, saved, and loaded into a new model                *)
(***************************************************************************)
\* DDPM.__init__(c): the fields of a new DDPM and of the ConditioningModule
\* it builds
NewDDPM(c) ==
  /\ cfg' = c
  /\ cond_attrs' = ConditioningModuleInitAttrs
  /\ mean_embedding' = None
  /\ cov_embedding' = None
  /\ inverse_cov_embedding' = None
  /\ n_samples' = 0
  /\ cm_call' = ""
  /\ cm_result' = Returned(None)
  /\ cm_updates' = 0
  /\ current_epoch' = 0
  /\ gmm_fitted' = FALSE
  /\ cond_params' = 0
  /\ cond_requires_grad' = TRUE
  /\ cond_training' = TRUE
  /\ eps_model_class' = NetworkClass(c)
  /\ eps_params' = 0
  /\ optimizer_params' = OptimizerParams
  /\ optimizer_state' = 0
  /\ lr_scheduler_steps' = 0
  /\ ema_step' = 0
  /\ ema_params' = R(0)
  /\ ema_requires_grad' = EmaInitRequiresGrad
  /\ beta' = BetaSchedule(c)
  /\ alpha' = Alpha(BetaSchedule(c))
  /\ alpha_bar' = CumProd(Alpha(BetaSchedule(c)))
  /\ sigma2' = Sigma2(BetaSchedule(c), CumProd(Alpha(BetaSchedule(c))))
  /\ loss' = NoLoss
  /\ rare_mask' = <<>>
  /\ mask_source' = ""
  /\ opt_steps' = 0
  /\ ema_blends' = 0
  /\ fit_gmm_calls' = 0
  /\ rw_batches' = 0

\* the string -> class lookup of _initialize_model and get_trained_model
ModelDict == [acgan |-> "ACGAN", diffusion_ts |-> "Diffusion_TS", diffcharge |-> "DDPM"]

ValueError == "ValueError"

\* the model names and the configurations tried; of the classes of
\* ModelDict only DDPM is built
ModelNames == {"diffcharge", "unknown"}
LifeConfigs ==
  {IdleCfg(network, schedule, 1, FALSE) :
     network \in {"attention", "cnn"},
     schedule \in {"linear", "quadratic", "unknown"}}

\* DataGenerator._initialize_model: the lookup of the name, then the
\* construction of the class found
InitializeModel(model_name, c) ==
  /\ NotTraining
  /\ cm_call = ""
  /\ IF model_name \notin DOMAIN ModelDict
     THEN /\ raised' = ValueError
          /\ UNCHANGED <<cmVars, cfg, pc, train_calls, n_data, epoch, batch_pos,
                         current_epoch, gmm_fitted, cond_params, cond_requires_grad,
                         cond_training, eps_model_class, eps_params, optimizer_params,
                         optimizer_state, lr_scheduler_steps, ema_step, ema_params,
                         ema_requires_grad, beta, alpha, alpha_bar, sigma2, loss,
                         rare_mask, mask_source, opt_steps, ema_blends,
                         fit_gmm_calls, rw_batches, data_shape>>
     ELSE /\ NewDDPM(c)
          /\ pc' = "new"
          /\ raised' = ""
          /\ train_calls' = 0
          /\ n_data' = 0
          /\ epoch' = 0
          /\ batch_pos' = 0
          /\ data_shape' = None
  /\ UNCHANGED <<genVars, files, saved_cm>>

\* the batch of embeddings the statistics are updated with
LifeBatch == <<0, MaxEmb>>

NextLife ==
  \/ \E model_name \in ModelNames, c \in LifeConfigs : InitializeModel(model_name, c)
  \/ CMUpdateRunningStatistics(LifeBatch) /\ UNCHANGED <<ddpmVars, genVars>>
  \/ CMReturn /\ UNCHANGED <<ddpmVars, genVars>>
  \/ cm_call = "" /\ Save
  \/ \E p \in Paths : cm_call = "" /\ Load(p)

SpecLife == InitAlone /\ [][NextLife]_vars

(***************************************************************************)
(* DDPM.generate and DDPM.sample                                           *)
(***************************************************************************)
MaxRows == 3
MaxSamplingBatch == 2
MaxCode == 1

RuntimeError == "RuntimeError"

\* the requested conditioning rows: one variable, one category code per row
ConditioningRows == UNION {[1..n -> 0..MaxCode] : n \in 1..MaxRows}

GenConfigs ==
  {IdleCfg("cnn", "linear", bs, use_ema) :
     bs \in 1..MaxSamplingBatch, use_ema \in BOOLEAN}

\* the shape of torch.cat(tensors, dim=-1) from the shapes of the tensors,
\* or the error raised: the tensors must have the same number of dimensions
\* and the same size in every dimension but the last
Cat(shapes) ==
  LET first == shapes[1]
      n == Len(first)
  IN  IF \E i \in 1..Len(shapes) : Len(shapes[i]) # n
      THEN Raised(RuntimeError)
      ELSE IF \E i \in 1..Len(shapes) : \E d \in 1..(n - 1) : shapes[i][d] # first[d]
      THEN Raised(RuntimeError)
      ELSE Returned([d \in 1..n |->
                       IF d < n THEN first[d]
                       ELSE SeqSum([i \in 1..Len(shapes) |-> shapes[i][n]])])

\* the (batch, embedding_dim) embedding ConditioningModule.forward returns
\* for a batch of rows
Embedding(rows) == [shape |-> <<Len(rows), 1>>, rows |-> rows]

\* self.ema.ema_model.sample: ema_model is the deep copy of the
\* noise-prediction network, a module that is called and has no method
\* sample, so the attribute lookup of nn.Module raises
ema_model_sample == Raised(AttributeError)

\* generate up to its loop
GenerateStart(rows) ==
  /\ gen_pc \in {"idle", "done", "raised"}
  /\ conditioning_vars' = rows
  /\ generated_samples' = <<>>
  /\ start_idx' = 0
  /\ gen_raised' = NoError
  /\ sample_model' = ""
  /\ sample_x' = NoTensor
  /\ sample_z' = NoTensor
  /\ sample_t' = 0
  /\ sample_steps' = <<>>
  /\ gen_pc' = "batch"
  /\ UNCHANGED <<cmVars, ddpmVars, p_step>>

\* one turn of generate's loop: the next batch up to the loop of the sample
\* call it makes, or the return of the concatenated samples when the range
\* is exhausted
GenerateBatch ==
  /\ gen_pc = "batch"
  /\ LET bs == cfg.sampling_batch_size
         total == Len(conditioning_vars)
     IN  IF start_idx < total
         THEN LET end_idx == IF start_idx + bs < total THEN start_idx + bs ELSE total
                  batch_conditioning_vars ==
                    SubSeq(conditioning_vars, start_idx + 1, end_idx)
                  current_bs == end_idx - start_idx
                  shape == <<current_bs, cfg.n_steps, cfg.n_steps>>
              IN  IF cfg.use_ema_sampling
                  THEN /\ gen_pc' = "raised"
                       /\ gen_raised' = [error |-> ema_model_sample.raised,
                                         at |-> "generate"]
                       /\ UNCHANGED <<sample_model, sample_x, sample_z, sample_t,
                                      sample_steps>>
                  ELSE \* sample(shape, batch_conditioning_vars, use_ema=False)
                       /\ sample_model' = "eps_model"
                       /\ sample_x' = [shape |-> shape, rows |-> batch_conditioning_vars]
                       /\ sample_z' = Embedding(batch_conditioning_vars)
                       /\ sample_t' = cfg.n_steps - 1
                       /\ sample_steps' = <<>>
                       /\ gen_pc' = "sample"
                       /\ UNCHANGED gen_raised
         ELSE /\ IF generated_samples = <<>>
                 THEN /\ gen_pc' = "raised"
                      /\ gen_raised' = [error |-> RuntimeError, at |-> "generate"]
                 ELSE /\ gen_pc' = "done"
                      /\ UNCHANGED gen_raised
              /\ UNCHANGED <<sample_model, sample_x, sample_z, sample_t, sample_steps>>
  /\ UNCHANGED <<cmVars, ddpmVars, conditioning_vars, start_idx, generated_samples,
                 p_step>>

\* one turn of sample's loop over reversed(range(n_steps)): the denoising
\* step at t, or, when the range is exhausted, the return of x to generate,
\* which appends it and moves to the next batch
SampleStep ==
  /\ gen_pc = "sample"
  /\ IF sample_t >= 0
     THEN /\ LET inp == Cat(<<sample_x.shape, sample_z.shape>>)
             IN  IF inp.raised # ""
                 THEN /\ gen_pc' = "raised"
                      /\ gen_raised' = [error |-> inp.raised, at |-> "sample"]
                      /\ UNCHANGED <<sample_t, sample_steps>>
                 ELSE /\ sample_steps' =
                           Append(sample_steps,
                                  [t |-> sample_t, model |-> sample_model,
                                   noise |-> IF sample_t = 0 THEN "zeros" ELSE "randn"])
                      /\ sample_t' = sample_t - 1
                      /\ UNCHANGED <<gen_pc, gen_raised>>
          /\ UNCHANGED <<start_idx, generated_samples>>
     ELSE /\ generated_samples' = Append(generated_samples, sample_x)
          /\ start_idx' = start_idx + cfg.sampling_batch_size
          /\ gen_pc' = "batch"
          /\ UNCHANGED <<gen_raised, sample_t, sample_steps>>
  /\ UNCHANGED <<cmVars, ddpmVars, conditioning_vars, sample_model, sample_x, sample_z,
                 p_step>>

InitGenerate == InitWith(GenConfigs)

NextGenerate ==
  \/ \E rows \in ConditioningRows : GenerateStart(rows)
  \/ GenerateBatch
  \/ SampleStep

SpecGen == InitGenerate /\ [][NextGenerate]_vars

(***************************************************************************)
(* Claims                                                                  *)
(***************************************************************************)
\* a batch's loss has just been computed
LossComputed == pc \in {"step", "ema"}
PostWarmUpBatch == LossComputed /\ current_epoch > cfg.warm_up_epochs
AllZero(mask) == \A i \in 1..Len(mask) : mask[i] = 0

\* C1 (as claimed): for warm_up_epochs >= 1 the mixture is unfit until the
\* end of the batch loop of epoch warm_up_epochs and fit in every state after
\* that epoch boundary, i.e. once warm_up_epochs epochs have ended.
C1_FitAtWarmUpBoundary ==
  cfg.warm_up_epochs >= 1 =>
    (gmm_fitted <=> lr_scheduler_steps >= cfg.warm_up_epochs)

\* C2 (as claimed): the mixture fit comes before the first batch whose loss
\* has the rarity-reweighted form, so whenever such a batch has been computed
\* the mixture is fitted.
C2_FitBeforeReweightedLoss ==
  rw_batches > 0 => gmm_fitted

C4_StatisticsInitialized ==
  rw_batches > 0 =>
    /\ n_samples > 0
    /\ mean_embedding # None
    /\ inverse_cov_embedding # None

\* C5: compute_mahalanobis_distance and is_rare called on a module whose
\* statistics were never initialized raise an error and return no value.
C5_UninitializedFails ==
  (cm_call \in {"compute_mahalanobis_distance", "is_rare"} /\ cm_updates = 0) =>
    /\ cm_result.raised # ""
    /\ cm_result.value = <<>>

C5_Witness ==
  /\ cm_call = "is_rare"
  /\ cm_updates = 0
  /\ mean_embedding = None
  /\ cm_result.raised = AttributeError

\* C6: EMA.update runs once after every optimizer step and before the next
\* one: the EMA counter equals the number of optimizer steps (one less
\* between a step and its update), the shadow has been blended
\* floor(counter / update_every) times, and an update blends the shadow
\* toward the live weights exactly when the new counter is a multiple of
\* update_every and otherwise leaves it unchanged.
C6_EmaFollowsOptimizer ==
  /\ [](/\ ema_step = IF pc = "ema" THEN opt_steps - 1 ELSE opt_steps
        /\ ema_blends = ema_step \div cfg.ema_update_interval)
  /\ [][EmaUpdate =>
          /\ ema_step' = ema_step + 1
          /\ ema_params' =
               IF ema_step' % cfg.ema_update_interval = 0
               THEN RAdd(RMul(EmaDecay, ema_params),
                         RMul(RSub(R(1), EmaDecay), R(eps_params)))
               ELSE ema_params]_vars

C6_Witness ==
  /\ cfg.ema_update_interval = 2
  /\ opt_steps = 3
  /\ ema_step = 3
  /\ ema_blends = 1
  /\ ema_params # R(0)

\* C7: the shadow parameters never require gradients and never belong to
\* the optimizer, and they change only in an EMA.update or a load.
C7_ShadowIsolated ==
  /\ [](~ema_requires_grad /\ "ema_model" \notin optimizer_params)
  /\ [][ema_params' # ema_params => (EmaUpdate \/ \E p \in Paths : Load(p))]_vars

C7_Witness ==
  /\ pc = "done"
  /\ opt_steps = 2
  /\ ema_blends = 2
  /\ ema_params = <<5, 4>>
  /\ ~ema_requires_grad
  /\ "ema_model" \notin optimizer_params

\* C8: in a post-warm-up batch an empty rare (non-rare) subset gives a
\* sub-loss of exactly zero; with an all-zero mask the loss is
\* (1 - lam) * loss_non_rare; and no batch ends with an error.
C8_EmptySubsetLoss ==
  /\ PostWarmUpBatch =>
       /\ (\A i \in 1..Len(rare_mask) : rare_mask[i] # 1) => loss.loss_rare = R(0)
       /\ (\A i \in 1..Len(rare_mask) : rare_mask[i] # 0) => loss.loss_non_rare = R(0)
       /\ AllZero(rare_mask) =>
            loss.loss_main = RMul(RSub(R(1), Lam), loss.loss_non_rare)
  /\ pc = "raised" => batch_pos >= NumBatches

C8_Witness ==
  /\ PostWarmUpBatch
  /\ AllZero(rare_mask)
  /\ loss.loss_rare = R(0)
  /\ loss.loss_non_rare = R(1)
  /\ loss.loss_main = <<1, 4>>

\* C9: a batch's loss has the warm-up form rec + kl_weight * KL exactly when
\* current_epoch <= warm_up_epochs, and the rarity-reweighted form
\* lam * (N_rare / N) * loss_rare + (1 - lam) * (N_non_rare / N) * loss_non_rare
\* exactly when current_epoch > warm_up_epochs.
C9_LossForm ==
  LossComputed =>
    /\ loss.form = "warmup" <=> current_epoch <= cfg.warm_up_epochs
    /\ loss.form = "reweighted" <=> current_epoch > cfg.warm_up_epochs
    /\ loss.form = "warmup" =>
         loss.loss_main = RAdd(loss.rec, RMul(KlWeight, loss.kl))
    /\ loss.form = "reweighted" =>
         /\ loss.N = BatchSize(batch_pos + 1)
         /\ loss.loss_main =
              RAdd(RMul(RMul(Lam, RDiv(R(loss.N_r), R(loss.N))), loss.loss_rare),
                   RMul(RMul(RSub(R(1), Lam), RDiv(R(loss.N_nr), R(loss.N))),
                        loss.loss_non_rare))

C9_Witness ==
  /\ LossComputed
  /\ current_epoch = 2
  /\ cfg.warm_up_epochs = 0
  /\ loss.form = "reweighted"
  /\ loss.N_nr = 2

\* C10: in the first train_model call on a new DDPM the conditioning
\* module's parameters require gradients during every batch of the epochs
\* 1..warm_up_epochs and are frozen during every batch of the later epochs.
C10_FrozenAfterWarmUp ==
  (train_calls = 1 /\ pc \in {"batch", "step", "ema"}) =>
    (cond_requires_grad <=> current_epoch <= cfg.warm_up_epochs)

C10_Witness ==
  /\ train_calls = 1
  /\ pc = "step"
  /\ current_epoch > cfg.warm_up_epochs
  /\ ~cond_requires_grad

\* C12: load with a path at which no checkpoint exists raises
\* FileNotFoundError and changes no component of the model: weights,
\* optimizer, EMA shadow, schedule arrays, conditioning module, current_epoch.
C12_MissingFileIsFatal ==
  [][\A p \in Paths :
       (Load(p) /\ files[p] = <<>>) =>
         /\ raised' = FileNotFoundError
         /\ UNCHANGED <<eps_params, optimizer_state, optimizer_params,
                        ema_params, ema_step, ema_requires_grad,
                        beta, alpha, alpha_bar, sigma2,
                        cond_params, cond_requires_grad, cond_training, cond_attrs,
                        mean_embedding, cov_embedding, inverse_cov_embedding,
                        n_samples, gmm_fitted, current_epoch>>]_vars

C12_Witness ==
  /\ raised = FileNotFoundError
  /\ pc = "done"
  /\ eps_params = 2
  /\ current_epoch = 2
  /\ \E p \in Paths : files[p] = <<>>

\* the keys of a bundle that holds everything a checkpoint is to hold
FullBundleKeys ==
  {"epoch", "eps_model_state_dict", "optimizer_state_dict", "ema_state_dict",
   "beta", "alpha", "alpha_bar", "sigma2", "conditioning_module_state_dict"}

\* C13 (as claimed): every bundle written by save holds the network weights,
\* the optimizer state, the EMA shadow weights, all four schedule arrays
\* (beta, alpha, alpha_bar, sigma2), the conditioning-module weights and the
\* epoch number.
C13_BundleComplete ==
  \A p \in Paths : files[p] # <<>> => FullBundleKeys \subseteq DOMAIN files[p][1]

\* C11: load of an existing checkpoint that lacks any subset of the keys
\* does not fail; every component whose key is present takes the
\* checkpoint's value and every component whose key is absent keeps the
\* value it had before the load.
C11_LoadSkipsAbsentKeys ==
  [][\A p \in Paths :
       (Load(p) /\ files[p] # <<>>) =>
         LET ckp == files[p][1]
             has(key) == key \in DOMAIN ckp
         IN  /\ raised' = ""
             /\ eps_params' =
                  IF has("eps_model_state_dict")
                  THEN ckp.eps_model_state_dict ELSE eps_params
             /\ optimizer_state' =
                  IF has("optimizer_state_dict")
                  THEN ckp.optimizer_state_dict ELSE optimizer_state
             /\ ema_params' =
                  IF has("ema_state_dict") THEN ckp.ema_state_dict ELSE ema_params
             /\ alpha_bar' = IF has("alpha_bar") THEN ckp.alpha_bar ELSE alpha_bar
             /\ beta' = IF has("beta") THEN ckp.beta ELSE beta
             /\ cond_params' =
                  IF has("conditioning_module_state_dict")
                  THEN ckp.conditioning_module_state_dict ELSE cond_params
             /\ current_epoch' = IF has("epoch") THEN ckp.epoch ELSE current_epoch]_vars

C11_Witness ==
  /\ raised = ""
  /\ files[ExternalPath] # <<>>
  /\ DOMAIN files[ExternalPath][1] = {"eps_model_state_dict", "beta"}
  /\ eps_params = 1
  /\ beta = quadratic_beta_schedule(MaxSteps)
  /\ ema_params = R(0)
  /\ optimizer_state = 0
  /\ cond_params = 0
  /\ current_epoch = 0
  /\ alpha_bar = CumProd(Alpha(linear_beta_schedule(MaxSteps)))

\* a model on which nothing has been called since its construction
FreshlyConstructed ==
  /\ pc = "new"
  /\ raised = ""
  /\ cm_updates = 0
  /\ mean_embedding = None
  /\ ~gmm_fitted
  /\ current_epoch = 0
  /\ eps_params = 0
  /\ optimizer_state = 0
  /\ ema_step = 0

\* C14 (as claimed): when a model whose conditioning module has initialized
\* running statistics (or a fitted mixture) has saved a bundle and a freshly
\* constructed model loads it, the loaded model's running statistics and
\* fitted status equal those of the model that saved.
C14_StatisticsRoundTrip ==
  [][\A p \in Paths :
       (/\ Load(p)
        /\ files[p] # <<>>
        /\ FreshlyConstructed
        /\ saved_cm[p][1].stats.n_samples > 0 \/ saved_cm[p][1].gmm_fitted) =>
         /\ mean_embedding' = saved_cm[p][1].stats.mean_embedding
         /\ cov_embedding' = saved_cm[p][1].stats.cov_embedding
         /\ inverse_cov_embedding' = saved_cm[p][1].stats.inverse_cov_embedding
         /\ n_samples' = saved_cm[p][1].stats.n_samples
         /\ gmm_fitted' = saved_cm[p][1].gmm_fitted]_vars

\* C15 (as claimed): in every reachable state alpha_t = 1 - beta_t and
\* alpha_bar_t is the product of alpha_s for s <= t, no operation after
\* construction having changed a schedule array.
C15_ScheduleInvariant ==
  /\ alpha = Alpha(beta)
  /\ alpha_bar = CumProd(alpha)

\* the schedule families and the model kinds
KnownSchedules == {"linear", "cosine", "quadratic"}

\* C19 (as claimed): building a model under an unrecognized model name or
\* with an unrecognized schedule name fails with an error and builds
\* nothing: no model, network or schedule is substituted.
C19_UnknownNamesRejected ==
  [][\A model_name \in ModelNames, c \in LifeConfigs :
       (/\ InitializeModel(model_name, c)
        /\ model_name \notin DOMAIN ModelDict \/ c.schedule \notin KnownSchedules) =>
         /\ raised' # ""
         /\ UNCHANGED <<cfg, beta, alpha, alpha_bar, sigma2, eps_model_class>>]_vars

\* the rows of the samples generate has collected, in the order collected
RECURSIVE CollectedRows(_)
CollectedRows(samples) ==
  IF samples = <<>> THEN <<>>
  ELSE samples[1].rows \o CollectedRows(Tail(samples))

\* C16 (as claimed): for N >= 1 rows and sampling batch size b >= 1,
\* generate returns; it has sampled consecutive batches of b rows (the last
\* of N mod b rows when that is not zero), each with its own rows, and the
\* N output rows are in the order of the input.
C16_GenerateBatches ==
  LET N == Len(conditioning_vars)
      b == cfg.sampling_batch_size
  IN  /\ gen_pc # "raised"
      /\ gen_pc = "done" =>
           /\ Len(generated_samples) = (N + b - 1) \div b
           /\ \A k \in 1..Len(generated_samples) :
                /\ generated_samples[k].shape[1] = IF k * b <= N THEN b ELSE N % b
                /\ generated_samples[k].rows =
                     SubSeq(conditioning_vars, (k - 1) * b + 1,
                            IF k * b <= N THEN k * b ELSE N)
           /\ CollectedRows(generated_samples) = conditioning_vars

\* C17 (as claimed): sample visits the timesteps n_steps - 1, ..., 0 in
\* decreasing order with one network call per step, adds normal noise at
\* every t > 0 and zero noise at t = 0, and ends by returning, never by
\* raising.
C17_SampleVisitsEveryStep ==
  /\ gen_raised.at # "sample"
  /\ gen_pc = "sample" =>
       /\ sample_t = cfg.n_steps - 1 - Len(sample_steps)
       /\ sample_t >= -1
       /\ \A i \in 1..Len(sample_steps) :
            /\ sample_steps[i].t = cfg.n_steps - i
            /\ sample_steps[i].noise =
                 IF sample_steps[i].t = 0 THEN "zeros" ELSE "randn"

\* C18 (as claimed): with use_ema_sampling generate completes and every
\* denoising step is computed by the EMA shadow network; without it every
\* step is computed by the live network.
C18_EmaSampling ==
  /\ cfg.use_ema_sampling =>
       /\ gen_pc # "raised"
       /\ \A i \in 1..Len(sample_steps) : sample_steps[i].model = "ema_model"
  /\ ~cfg.use_ema_sampling =>
       \A i \in 1..Len(sample_steps) : sample_steps[i].model = "eps_model"

(***************************************************************************)
(* ConditioningModule.forward next to the statistics calls                 *)
(***************************************************************************)
\* the values of eps = torch.randn_like(std), one per example
NoiseVals == {-1, 1}

\* batches of categorical codes: one variable, one code per example
CodeBatches == UNION {[1..n -> 0..MaxCode] : n \in 1..MaxBatchLen}

\* a forward that counts the examples it has embedded
forward_counting(st, categorical_vars, sample, eps) ==
  LET mu == [i \in 1..Len(categorical_vars) |-> categorical_vars[i]]
  IN  [stats |-> [st EXCEPT !.n_samples = @ + Len(categorical_vars)],
       out |-> [z |-> IF sample THEN [i \in 1..Len(mu) |-> mu[i] + eps[i]] ELSE mu,
                mu |-> mu,
                logvar |-> [i \in 1..Len(mu) |-> 0]]]

\* forward: embedding lookup and mlp give mu and logvar per example (the
\* weights are such that mu is the code and logvar is 0, std = 1),
\* z = mu + eps * std when sample, else mu; the statistics are not touched
forward(st, categorical_vars, sample, eps) ==
  LET mu == [i \in 1..Len(categorical_vars) |-> categorical_vars[i]]
  IN  [stats |-> st,
       out |-> [z |-> IF sample THEN [i \in 1..Len(mu) |-> mu[i] + eps[i]] ELSE mu,
                mu |-> mu,
                logvar |-> [i \in 1..Len(mu) |-> 0]]]

CMForward(categorical_vars, sample, eps) ==
  /\ cm_call = ""
  /\ LET r == forward(CurrentStats, categorical_vars, sample, eps)
     IN  /\ mean_embedding' = r.stats.mean_embedding
         /\ cov_embedding' = r.stats.cov_embedding
         /\ inverse_cov_embedding' = r.stats.inverse_cov_embedding
         /\ n_samples' = r.stats.n_samples
         /\ cm_result' = Returned(r.out)
  /\ cm_call' = "forward"
  /\ UNCHANGED <<cond_attrs, cm_updates>>

NextForward ==
  \/ \E e \in Batches(2) : CMUpdateRunningStatistics(e) /\ UNCHANGED <<ddpmVars, genVars>>
  \/ \E c \in CodeBatches : \E sample \in BOOLEAN : \E eps \in [1..Len(c) -> NoiseVals] :
       CMForward(c, sample, eps) /\ UNCHANGED <<ddpmVars, genVars>>
  \/ CMReturn /\ UNCHANGED <<ddpmVars, genVars>>

SpecForward == InitAlone /\ [][NextForward]_vars

(***************************************************************************)
(* The entries that start training, given datasets of any example shape    *)
(***************************************************************************)
MaxShapeOff == 1

\* the example shapes of the datasets handed over: the configured shape and
\* shapes longer or wider than it
DataShapes ==
  {<<cfg.seq_len + i, cfg.input_dim + j>> : i \in 0..MaxShapeOff, j \in 0..MaxShapeOff}

\* one epoch, one batch per optimizer step, no warm-up
FitCfg == [IdleCfg("cnn", "linear", 1, FALSE) EXCEPT !.n_epochs = 1]

\* the attributes fit reads on the wrapped model: an ACGAN keeps its options
\* as self.opt, a DDPM keeps its configuration as self.cfg only
HasOpt(model_class) == model_class = "ACGAN"

AssertionError == "AssertionError"

\* fit(self, X) of data_generator.py on a generator that wraps the model of
\* the given name: self.model.opt is read before any shape is compared, the
\* asserts follow, train_model is the last statement
DataGeneratorFit(model_name, n, shape) ==
  /\ NotTraining
  /\ model_name \in DOMAIN ModelDict
  /\ IF ~HasOpt(ModelDict[model_name])
     THEN /\ raised' = AttributeError
          /\ pc' = "raised"
          /\ UNCHANGED <<train_calls, n_data, data_shape, cond_training, epoch,
                         batch_pos, loss, rare_mask, mask_source>>
     ELSE IF shape # ExpectedShape
     THEN /\ raised' = AssertionError
          /\ pc' = "raised"
          /\ UNCHANGED <<train_calls, n_data, data_shape, cond_training, epoch,
                         batch_pos, loss, rare_mask, mask_source>>
     ELSE /\ train_calls' = train_calls + 1
          /\ n_data' = n
          /\ data_shape' = shape
          /\ cond_training' = TRUE
          /\ epoch' = 0
          /\ batch_pos' = 0
          /\ raised' = ""
          /\ loss' = NoLoss
          /\ rare_mask' = <<>>
          /\ mask_source' = ""
          /\ pc' = "epoch"
  /\ UNCHANGED <<cmVars, genVars, eps_model_class, saved_cm,
                 cfg, current_epoch, gmm_fitted, cond_params, cond_requires_grad,
                 eps_params, optimizer_params, optimizer_state, lr_scheduler_steps,
                 ema_step, ema_params, ema_requires_grad, beta, alpha, alpha_bar, sigma2,
                 files, opt_steps, ema_blends, fit_gmm_calls, rw_batches>>

\* Evaluator.get_trained_model: the lookup of the name, the construction of
\* the class found, then train_model on the dataset as it is
GetTrainedModel(model_name, n, shape) ==
  /\ NotTraining
  /\ IF model_name \notin DOMAIN ModelDict
     THEN /\ raised' = ValueError
          /\ pc' = "raised"
          /\ UNCHANGED <<cmVars, cfg, train_calls, n_data, epoch, batch_pos,
                         current_epoch, gmm_fitted, cond_params, cond_requires_grad,
                         cond_training, eps_model_class, eps_params, optimizer_params,
                         optimizer_state, lr_scheduler_steps, ema_step, ema_params,
                         ema_requires_grad, beta, alpha, alpha_bar, sigma2, loss,
                         rare_mask, mask_source, opt_steps, ema_blends,
                         fit_gmm_calls, rw_batches, data_shape>>
     ELSE /\ NewDDPM(cfg)
          /\ train_calls' = 1
          /\ n_data' = n
          /\ data_shape' = shape
          /\ epoch' = 0
          /\ batch_pos' = 0
          /\ raised' = ""
          /\ pc' = "epoch"
  /\ UNCHANGED <<genVars, files, saved_cm>>

InitFit == InitWith({FitCfg})

NextFit ==
  \/ \E n \in 1..MaxData, shape \in DataShapes : TrainStart(n, shape)
  \/ \E n \in 1..MaxData, shape \in DataShapes : DataGeneratorFit("diffcharge", n, shape)
  \/ \E model_name \in ModelNames, n \in 1..MaxData, shape \in DataShapes :
       GetTrainedModel(model_name, n, shape)
  \/ EpochBegin
  \/ BatchLoss
  \/ OptimizerStep
  \/ EmaUpdate
  \/ EpochEnd
  \/ TrainComplete

SpecFit == InitFit /\ [][NextFit]_vars

\* C20: while the epoch/batch loop of train_model runs, whichever entry
\* started it (fit, get_trained_model, train_model), the examples of the
\* dataset have the configured (sequence length, feature dimension): a
\* dataset of another shape was rejected before its first batch
C20_ShapeValidated ==
  pc \in {"batch", "step", "ema"} => data_shape = ExpectedShape

\* C21: is_rare with an explicit threshold c, on initialized statistics,
\* answers for every example the comparison of its Mahalanobis distance
\* with c: the answer for an example is the answer it gets in a batch of
\* its own, under every percentile argument.
C21_ExplicitThreshold ==
  [][\A e \in Batches(1) : \A c \in Thresholds \ {None} : \A p \in Percentiles :
       (CMIsRareWith(e, c, p) /\ mean_embedding # None) =>
         LET d == compute_mahalanobis_distance(CurrentStats, e).value
         IN  /\ cm_result'.raised = ""
             /\ cm_result'.value = [i \in 1..Len(e) |-> DistanceExceeds(d[i], c)]
             /\ \A i \in 1..Len(e) : \A q \in Percentiles :
                  cm_result'.value[i] = is_rare(CurrentStats, <<e[i]>>, c, q).value[1]]_vars

\* two examples at the same positive distance, both flagged: only an
\* explicit threshold does that
C21_Witness ==
  /\ cm_call = "is_rare"
  /\ mean_embedding # None
  /\ cm_result = is_rare(CurrentStats, <<MaxEmb, MaxEmb>>, <<1, 2>>, DefaultPercentile)
  /\ cm_result.value = <<TRUE, TRUE>>

\* C30: is_rare without a threshold, on initialized statistics, compares
\* each distance with the percentile of the distances of the batch it is
\* in: an example whose distance is the smallest of its batch is never
\* flagged, and in a batch of one example or of equal distances no example
\* is flagged.  (All distances of a batch are |diff| times one positive
\* factor, so they are ordered as the |diff|.)
C30_BatchRelativeThreshold ==
  [][\A e \in Batches(1) : \A p \in Percentiles :
       (CMIsRareWith(e, None, p) /\ mean_embedding # None) =>
         LET d == [i \in 1..Len(e) |-> RAbs(RSub(R(e[i]), mean_embedding))]
         IN  /\ cm_result'.raised = ""
             /\ \A i \in 1..Len(e) :
                  (\A j \in 1..Len(e) : ~RLess(d[j], d[i])) => ~cm_result'.value[i]
             /\ (Len(e) = 1 \/ \A i, j \in 1..Len(e) : d[i] = d[j]) =>
                  \A i \in 1..Len(e) : ~cm_result'.value[i]]_vars

\* the same example flagged next to a nearer one and not flagged next to
\* itself
C30_Witness ==
  /\ cm_call = "is_rare"
  /\ mean_embedding # None
  /\ cm_result = is_rare(CurrentStats, <<0, MaxEmb>>, None, DefaultPercentile)
  /\ cm_result.value = <<FALSE, TRUE>>
  /\ is_rare(CurrentStats, <<MaxEmb, MaxEmb>>, None, DefaultPercentile).value = <<FALSE, FALSE>>

\* C22: update_running_statistics called with the batch the statistics were
\* initialized with leaves the running mean and the running covariance as
\* they are.
C22_SameBatchIdempotent ==
  [][\A e \in Batches(2) :
       (CMUpdateRunningStatistics(e) /\ CurrentStats = initialize_statistics(e)) =>
         /\ mean_embedding' = mean_embedding
         /\ cov_embedding' = cov_embedding]_vars

\* after the second call with a batch of two different examples: mean and
\* covariance are those of the initialization, the inverse is the one an
\* update computes
C22_Witness ==
  /\ cm_updates = 2
  /\ cm_call = "update_running_statistics"
  /\ mean_embedding = initialize_statistics(<<0, MaxEmb>>).mean_embedding
  /\ cov_embedding = initialize_statistics(<<0, MaxEmb>>).cov_embedding
  /\ inverse_cov_embedding = RegVal(V(cov_embedding), R(2))

\* the covariance of the mixture that gives weight alpha to a population
\* of mean old_mean and covariance old_cov and weight 1 - alpha to one of
\* mean batch_mean and covariance batch_cov
MixtureCov(old_mean, old_cov, batch_mean, batch_cov) ==
  LET one_minus == RSub(R(1), CMAlpha)
      shift == RSub(batch_mean, old_mean)
  IN  RAdd(RAdd(RMul(CMAlpha, old_cov), RMul(one_minus, batch_cov)),
           RMul(RMul(CMAlpha, one_minus), RMul(shift, shift)))

\* C26: an update after initialization sets the mean to
\* alpha * old_mean + (1 - alpha) * batch_mean and the covariance to the
\* covariance of the alpha / (1 - alpha) mixture of the previous estimate
\* and the batch (the EWMA of the covariances plus the mean-shift term),
\* and caches the inverse of the new covariance regularized.
C26_EwmaIdentity ==
  [][\A e \in Batches(2) :
       (CMUpdateRunningStatistics(e) /\ n_samples > 0) =>
         LET batch_mean == BatchMean(e)
             batch_cov == BatchCov(e, batch_mean)
         IN  /\ mean_embedding' =
                  RAdd(RMul(CMAlpha, mean_embedding),
                       RMul(RSub(R(1), CMAlpha), batch_mean))
             /\ V(cov_embedding') =
                  MixtureCov(mean_embedding, V(cov_embedding), batch_mean, batch_cov)
             /\ inverse_cov_embedding' =
                  RegVal(V(cov_embedding'), RAdd(Reg(cov_embedding'), R(1)))]_vars

\* C25: a forward call, sampling or not, leaves mean_embedding,
\* cov_embedding, inverse_cov_embedding and n_samples as they were; a step
\* that changes any of them is an update_running_statistics call (which
\* initializes on its first use).
C25_ForwardKeepsStatistics ==
  [][/\ cm_call' = "forward" =>
          UNCHANGED <<mean_embedding, cov_embedding, inverse_cov_embedding, n_samples>>
     /\ <<mean_embedding, cov_embedding, inverse_cov_embedding, n_samples>>' #
          <<mean_embedding, cov_embedding, inverse_cov_embedding, n_samples>> =>
          cm_call' = "update_running_statistics"]_vars

\* a sampling forward on a module whose statistics have been updated twice
C25_Witness ==
  /\ cm_call = "forward"
  /\ cm_updates = 2
  /\ n_samples = 2
  /\ mean_embedding # None
  /\ cm_result.value.z # cm_result.value.mu

\* C24: whatever schedule family and number of steps the model was built
\* with, alpha_bar never increases from one step to the next, starts at
\* most at 1 and ends at least at 0.
C24_AlphaBarMonotone ==
  /\ \A t \in 2..Len(alpha_bar) : ~RLess(alpha_bar[t - 1], alpha_bar[t])
  /\ ~RLess(R(1), alpha_bar[1])
  /\ ~RLess(alpha_bar[Len(alpha_bar)], R(0))

(***************************************************************************)
(* A DDPM with the linear schedule over ten steps.  Its cumulative         *)
(* products do not fit the integers of <<n, d>>: alpha_bar and sigma2 are  *)
(* rationals of any size.                                                  *)
(***************************************************************************)
\* the configurations of the scenario: they differ in the number of epochs
ScenarioConfigs ==
  {[FitCfg EXCEPT !.n_steps = 10, !.n_epochs = n] : n \in 0..MaxEpochs}

\* torch.cumprod(a, dim=0)
RECURSIVE BigCumProd(_)
BigCumProd(a) ==
  IF Len(a) = 0 THEN <<>>
  ELSE IF Len(a) = 1 THEN <<BigROf(a[1])>>
  ELSE LET front == BigCumProd(SubSeq(a, 1, Len(a) - 1))
       IN  Append(front, BigRMul(front[Len(front)], BigROf(a[Len(a)])))

\* sigma2[0] = beta[0]; sigma2[t] = beta[t] * (1 - alpha_bar[t-1]) / (1 - alpha_bar[t])
BigSigma2(b, ab) ==
  [i \in 1..Len(b) |->
     IF i = 1 THEN BigROf(b[1])
     ELSE BigRDiv(BigRMul(BigROf(b[i]), BigROneMinus(ab[i - 1])), BigROneMinus(ab[i]))]

InitScenario ==
  /\ InitObject(ScenarioConfigs)
  /\ alpha_bar = BigCumProd(alpha)
  /\ sigma2 = BigSigma2(beta, alpha_bar)

SpecScenario == InitScenario /\ [][Next]_vars

\* x within a tenth of target
ApproxEq(x, target) == ~RLess(target, RMul(R(10), RAbs(RSub(x, target))))

\* C23: the model built with the linear schedule, T = 10, beta_start = 1e-4
\* and beta_end = 0.02 has beta[0] close to 1e-4, beta[9] close to 0.02 and
\* every alpha_bar[t] below alpha_bar[t-1].
C23_ScenarioA ==
  /\ ApproxEq(beta[1], <<1, 10000>>)
  /\ ApproxEq(beta[Len(beta)], <<1, 50>>)
  /\ \A t \in 2..Len(alpha_bar) : BigRLess(alpha_bar[t], alpha_bar[t - 1])

(***************************************************************************)
(* DDPM.p_sample_step on batches with one timestep per example             *)
(***************************************************************************)
\* the timesteps of a batch: t is a (batch,) tensor of values 0..n_steps-1
TimestepBatches == UNION {[1..n -> 0..(cfg.n_steps - 1)] : n \in 1..MaxBatchLen}

\* the shapes of z a caller passes next to xt of shape
\* (batch, seq_len, input_dim): expanded along the sequence, or as forward
\* returns it
ZShapes(n) == {<<n, cfg.seq_len, 1>>, <<n, 1>>}

\* p_sample_step(xt, z, t): the noise var.sqrt() * z_noise added to the mean
\* of each example, as the pair (var, z_noise); eps is torch.randn_like(xt)
p_sample_step(t, z_shape, eps) ==
  LET inp == Cat(<<<<Len(t), cfg.seq_len, cfg.input_dim>>, z_shape>>)
      all_zero == \A i \in 1..Len(t) : t[i] = 0
      z_noise == [i \in 1..Len(t) |-> IF all_zero THEN 0 ELSE eps[i]]
  IN  IF inp.raised # ""
      THEN [raised |-> inp.raised, t |-> t, added |-> <<>>]
      ELSE [raised |-> "", t |-> t,
            added |-> [i \in 1..Len(t) |->
                         [var |-> sigma2[t[i] + 1], z_noise |-> z_noise[i]]]]

PSampleStep(t, z_shape, eps) ==
  /\ gen_pc = "idle"
  /\ cm_call = ""
  /\ p_step' = p_sample_step(t, z_shape, eps)
  /\ UNCHANGED <<cmVars, ddpmVars, gen_pc, gen_raised, conditioning_vars, start_idx,
                 generated_samples, sample_model, sample_x, sample_z, sample_t,
                 sample_steps>>

NextPStep ==
  \/ \E model_name \in ModelNames, c \in LifeConfigs :
       p_step = NoStep /\ InitializeModel(model_name, c)
  \/ \E t \in TimestepBatches : \E z_shape \in ZShapes(Len(t)) :
       \E eps \in [1..Len(t) -> NoiseVals] : PSampleStep(t, z_shape, eps)

SpecPStep == InitAlone /\ [][NextPStep]_vars

\* C27: in the noise a reverse step adds, every example at timestep 0 has
\* z_noise = 0 and every example at a timestep > 0 has a standard-normal
\* draw scaled by the sigma2 of its own timestep, whatever the timesteps of
\* the other examples of the batch.
C27_NoisePerExample ==
  p_step.raised = "" =>
    \A i \in 1..Len(p_step.t) :
      /\ p_step.t[i] = 0 => p_step.added[i].z_noise = 0
      /\ p_step.t[i] > 0 =>
           /\ p_step.added[i].z_noise \in NoiseVals
           /\ p_step.added[i].var = sigma2[p_step.t[i] + 1]

\* C28: the optimizer holds the parameters of the noise-prediction network
\* only; no optimizer step, and no other step of train_model, in warm-up or
\* after it, changes the weights of the conditioning module.
C28_ConditioningWeightsUntouched ==
  /\ [](optimizer_params = {"eps_model"})
  /\ [][OptimizerStep => cond_params' = cond_params]_vars
  /\ [][~NotTraining => cond_params' = cond_params]_vars

\* a training run that has ended after optimizer steps on post-warm-up
\* batches: the network's weights have moved, the module's have not
C28_Witness ==
  /\ pc = "done"
  /\ current_epoch > cfg.warm_up_epochs
  /\ opt_steps >= 2
  /\ eps_params = opt_steps
  /\ cond_params = 0

\* the masks is_rare(...).float() or torch.zeros can give for a batch
RarityMasks == UNION {[1..n -> {0, 1}] : n \in 1..MaxBatchSize}

\* the two index sets of a mask split the positions of the batch, and the
\* counts and the weights of the loss lo computed from it add up
SplitsBatch(mask, lo) ==
  /\ rare_idx(mask) \cap non_rare_idx(mask) = {}
  /\ rare_idx(mask) \cup non_rare_idx(mask) = 1..Len(mask)
  /\ Cardinality(rare_idx(mask)) = lo.N_r
  /\ Cardinality(non_rare_idx(mask)) = lo.N_nr
  /\ lo.N_r + lo.N_nr = lo.N
  /\ lo.N = Len(mask)
  /\ RAdd(RDiv(R(lo.N_r), R(lo.N)), RDiv(R(lo.N_nr), R(lo.N))) = R(1)

\* C29: in every post-warm-up batch the rare and the non-rare index set of
\* the mask are disjoint and cover the batch, N_r + N_nr = N and the two
\* weights N_r / N and N_nr / N sum to 1; the same for every 0/1 mask a
\* batch could have.
C29_IndexSetsPartition ==
  /\ PostWarmUpBatch => SplitsBatch(rare_mask, loss)
  /\ \A mask \in RarityMasks : SplitsBatch(mask, ReweightedLoss(mask, 1, 1))

C29_Witness ==
  /\ PostWarmUpBatch
  /\ Len(rare_mask) = 2
  /\ non_rare_idx(rare_mask) = {1, 2}
  /\ rare_idx(rare_mask) = {}
  /\ loss.N_r = 0 /\ loss.N_nr = 2 /\ loss.N = 2

====
